---- MODULE Spec2Model ----
(***************************************************************************)
(* Model of pandas_solutions.matcher.DataFrameMatcher: a per-address       *)
(* backward as-of join of DataFrame B against DataFrame A, and of          *)
(* pandas_solutions.merger.Merger: the merge of the CSV files of a         *)
(* directory into one file, read by a pool of worker processes.            *)
(*                                                                         *)
(* A DataFrame is a record [columns, index, rows]: the set of column       *)
(* names, the sequence of row labels and the sequence of rows, a row being *)
(* a function from the column names to cell values.  DataFrames live in a  *)
(* heap of objects, so that a reference kept by the matcher and a          *)
(* reference kept by the caller can name the same object or two objects.   *)
(***************************************************************************)
EXTENDS Integers, Sequences, FiniteSets, TLC

VARIABLES
    heap,           \* object id -> DataFrame
    df_a,           \* self._df_a: None or a reference
    df_b,           \* self._df_b: None or a reference
    indexed_df_a,   \* self._indexed_df_a: None or a reference
    ret,            \* the latest step and, for a call on the matcher, its outcome
    accepted,       \* the DataFrames of the latest set_dataframes that returned
    max_workers,    \* Merger.max_workers
    fs,             \* the input directory: what the path is, and its files
    output,         \* the output file: whether it exists, and its rows
    pc,             \* "idle", or "reading" while merge_csv_files waits for the pool
    sort_fields,    \* merge_csv_files: the sort_fields of the call
    csv_files,      \* merge_csv_files: the list _find_csv_files returned
    tasks,          \* the pool: for each of csv_files its read, and the outcome
    finished,       \* the pool: the reads that ended, in the order they ended
    calls,          \* the number of calls of merge_csv_files so far
    mret            \* the latest step on the merger and, for a call, its outcome

matcher_vars == <<heap, df_a, df_b, indexed_df_a, ret, accepted>>

merger_vars == <<max_workers, fs, output, pc, sort_fields, csv_files, tasks,
                 finished, calls, mret>>

vars == <<heap, df_a, df_b, indexed_df_a, ret, accepted, max_workers, fs, output,
          pc, sort_fields, csv_files, tasks, finished, calls, mret>>

----------------------------------------------------------------------------
(* Bounds and value domains *)

MaxRowsA == 2
MaxRowsB == 2

Addresses == {"a1", "a2"}
Cycles == {1, 2}
\* The payload of the n-th record of A: every record has its own.
Datas == <<"d1", "d2", "d3", "d4">>
Labels == {0, 1}

\* Lexicographic order of the address strings.
AddrRank == [x \in Addresses |-> IF x = "a1" THEN 1 ELSE 2]

None == "None"
NaN == "NaN"

required_cols_a == {"address", "data", "cycle"}
required_cols_b == {"cycle", "address", "way", "set"}

NoFrame == [columns |-> {}, index |-> <<>>, rows |-> <<>>]

EmptyFrame(cols) == [columns |-> cols, index |-> <<>>, rows |-> <<>>]

\* The cell values a caller writes into a new row.
RowsA(n) == [address : Addresses, data : {Datas[n]}, cycle : Cycles]
RowsB == [cycle : Cycles, address : Addresses, way : {1}, set : {100}]

Restrict(r, cols) == [c \in cols |-> r[c]]

Range(s) == {s[i] : i \in 1..Len(s)}

Column(df, c) == [i \in 1..Len(df.rows) |-> df.rows[i][c]]

Min(S) == CHOOSE x \in S : \A y \in S : x <= y
Max(S) == CHOOSE x \in S : \A y \in S : y <= x

\* The subsequence of s at the positions of S, in order.
RECURSIVE SelectIdx(_, _, _)
SelectIdx(s, S, i) ==
    IF i > Len(s) THEN <<>>
    ELSE (IF i \in S THEN <<s[i]>> ELSE <<>>) \o SelectIdx(s, S, i + 1)

Filter(df, S) ==
    [columns |-> df.columns, index |-> SelectIdx(df.index, S, 1),
     rows |-> SelectIdx(df.rows, S, 1)]

Injections(n) == {p \in [1..n -> 1..n] : \A i, j \in 1..n : p[i] = p[j] => i = j}

Take(df, p) ==
    [columns |-> df.columns,
     index |-> [i \in 1..Len(df.rows) |-> df.index[p[i]]],
     rows |-> [i \in 1..Len(df.rows) |-> df.rows[p[i]]]]

RangeIndex(n) == [i \in 1..n |-> i - 1]

----------------------------------------------------------------------------
(* The objects *)

CallerA == "caller_a"
CallerB == "caller_b"
SelfA == "self_a"
SelfB == "self_b"
Indexed == "indexed"
Objects == {CallerA, CallerB, SelfA, SelfB, Indexed}

\* An object made by a call and handed to the caller: no other reference to it exists.
Fresh == "fresh"

Deref(ref) == heap[ref]

\* frame is the DataFrame returned and ref the object it is.
NoRet == [op |-> "none", exc |-> "none", msg |-> "", missing |-> {},
          frame |-> NoFrame, ref |-> None, stats |-> <<>>]

\* A path of the input directory: the name is stem followed by ext.
Path(stem, ext) == [stem |-> stem, ext |-> ext]

CsvNames == {Path("a", ".csv.gz"), Path("b", ".csv"), Path("c", ".csv")}

Names == CsvNames \cup {Path("n", ".txt")}

\* A file that is not there, and a file pandas.read_csv raises on.
Absent == [state |-> "absent", rows |-> <<>>]
Unreadable == [state |-> "unreadable", rows |-> <<>>]

\* The files merged have the one column v; a row is its value.
FileRows == {<<>>, <<1, 2>>, <<2, 1>>}

NoOutput == [exists |-> FALSE, rows |-> <<>>]

NoMRet == [op |-> "none", exc |-> "none"]

\* mp.cpu_count() of the machine.
cpu_count == 3

\* Merger(max_workers): 0 stands for None and for 0.
Merger_init(arg) ==
    /\ max_workers = IF arg = 0 THEN cpu_count ELSE arg
    /\ fs = [kind |-> "missing", files |-> [n \in Names |-> Absent]]
    /\ output = NoOutput
    /\ pc = "idle"
    /\ sort_fields = <<>>
    /\ csv_files = <<>>
    /\ tasks = <<>>
    /\ finished = <<>>
    /\ calls = 0
    /\ mret = NoMRet

DataFrameMatcher_init ==
    /\ heap = [o \in Objects |->
                 IF o = CallerA THEN EmptyFrame(required_cols_a)
                 ELSE IF o = CallerB THEN EmptyFrame(required_cols_b)
                 ELSE NoFrame]
    /\ df_a = None
    /\ df_b = None
    /\ indexed_df_a = None
    /\ ret = NoRet
    /\ accepted = [set |-> FALSE, a |-> NoFrame, b |-> NoFrame]

\* A matcher, and beside it a Merger() nothing is asked of.
Init == DataFrameMatcher_init /\ Merger_init(0)

----------------------------------------------------------------------------
(* DataFrame.copy(): a new object with the same contents.  The reference   *)
(* stored is the new object's, dst.                                        *)
AliasRef(src, dst) == src

LostRef(src, dst) == None

CopyRef(src, dst) == dst

AllRequired(required, columns) == required

\* required_cols - set(df.columns)
missing_cols(required, columns) == required \ columns

KeepIndex(old) == old

\* self._indexed_df_a = None
discard_index(old) == None

\* A set_dataframes that stores A before it looks at B.
set_dataframes_eager ==
    /\ UNCHANGED merger_vars
    /\ LET a == heap[CallerA]
           b == heap[CallerB]
       IN  IF ~(required_cols_a \subseteq a.columns)
           THEN /\ ret' = [NoRet EXCEPT !.op = "set_dataframes", !.exc = "ValueError",
                              !.msg = "DataFrame A",
                              !.missing = missing_cols(required_cols_a, a.columns)]
                /\ UNCHANGED <<heap, df_a, df_b, indexed_df_a, accepted>>
           ELSE IF ~(required_cols_b \subseteq b.columns)
           THEN /\ ret' = [NoRet EXCEPT !.op = "set_dataframes", !.exc = "ValueError",
                              !.msg = "DataFrame B",
                              !.missing = missing_cols(required_cols_b, b.columns)]
                /\ heap' = [heap EXCEPT ![SelfA] = a]
                /\ df_a' = CopyRef(CallerA, SelfA)
                /\ UNCHANGED <<df_b, indexed_df_a, accepted>>
           ELSE /\ heap' = [heap EXCEPT ![SelfA] = a, ![SelfB] = b]
                /\ df_a' = CopyRef(CallerA, SelfA)
                /\ df_b' = CopyRef(CallerB, SelfB)
                /\ indexed_df_a' = discard_index(indexed_df_a)
                /\ ret' = [NoRet EXCEPT !.op = "set_dataframes"]
                /\ accepted' = [set |-> TRUE, a |-> a, b |-> b]

\* set_dataframes(df_a, df_b), called with the caller's two DataFrames.
set_dataframes ==
    /\ UNCHANGED merger_vars
    /\ LET a == heap[CallerA]
           b == heap[CallerB]
       IN  IF ~(required_cols_a \subseteq a.columns)
           THEN /\ ret' = [NoRet EXCEPT !.op = "set_dataframes", !.exc = "ValueError",
                              !.msg = "DataFrame A",
                              !.missing = missing_cols(required_cols_a, a.columns)]
                /\ UNCHANGED <<heap, df_a, df_b, indexed_df_a, accepted>>
           ELSE IF ~(required_cols_b \subseteq b.columns)
           THEN /\ ret' = [NoRet EXCEPT !.op = "set_dataframes", !.exc = "ValueError",
                              !.msg = "DataFrame B",
                              !.missing = missing_cols(required_cols_b, b.columns)]
                /\ UNCHANGED <<heap, df_a, df_b, indexed_df_a, accepted>>
           ELSE /\ heap' = [heap EXCEPT ![SelfA] = a, ![SelfB] = b]
                /\ df_a' = CopyRef(CallerA, SelfA)
                /\ df_b' = CopyRef(CallerB, SelfB)
                /\ indexed_df_a' = discard_index(indexed_df_a)
                /\ ret' = [NoRet EXCEPT !.op = "set_dataframes"]
                /\ accepted' = [set |-> TRUE, a |-> a, b |-> b]

----------------------------------------------------------------------------
(* _build_index: sort_values(['address', 'cycle']).reset_index(drop=True). *)
(* A sort on several columns is a lexsort, which is stable.                *)

AddressLess(r, s) == AddrRank[r["address"]] < AddrRank[s["address"]]

LexLess(r, s) ==
    \/ AddrRank[r["address"]] < AddrRank[s["address"]]
    \/ /\ r["address"] = s["address"]
       /\ r["cycle"] < s["cycle"]

\* x goes behind every row that does not come after it.
InsertStable(sorted, x) ==
    LET later == {i \in 1..Len(sorted) : LexLess(x, sorted[i])}
        k == IF later = {} THEN Len(sorted) + 1 ELSE Min(later)
    IN  SubSeq(sorted, 1, k - 1) \o <<x>> \o SubSeq(sorted, k, Len(sorted))

RECURSIVE LexSort(_, _)
LexSort(rows, n) ==
    IF n = 0 THEN <<>> ELSE InsertStable(LexSort(rows, n - 1), rows[n])

sort_values_address_cycle(df) ==
    [columns |-> df.columns, index |-> RangeIndex(Len(df.rows)),
     rows |-> LexSort(df.rows, Len(df.rows))]

build_index(df) == sort_values_address_cycle(df)

----------------------------------------------------------------------------
(* sort_values('cycle') and sort_index(): a sort on one key with the       *)
(* default kind, quicksort, which is not stable.  Every arrangement in     *)
(* which the keys do not decrease is a possible outcome.                   *)

Sorted(keys) == \A i, j \in 1..Len(keys) : i < j => keys[i] <= keys[j]

UnstableSorts(df, keys) ==
    {Take(df, p) : p \in {q \in Injections(Len(df.rows)) :
                            Sorted([i \in 1..Len(df.rows) |-> keys[q[i]]])}}

sort_values_cycle(df) == UnstableSorts(df, Column(df, "cycle"))

\* sort_index() leaves a frame whose labels already increase as it is.
sort_index(df) ==
    IF Sorted(df.index) THEN {df} ELSE UnstableSorts(df, df.index)

----------------------------------------------------------------------------
(* match *)

\* reset_index(drop=False): the labels become the column 'index'.
reset_index(df) ==
    [columns |-> df.columns \cup {"index"},
     index |-> RangeIndex(Len(df.rows)),
     rows |-> [i \in 1..Len(df.rows) |->
                 [c \in df.columns \cup {"index"} |->
                    IF c = "index" THEN df.index[i] ELSE df.rows[i][c]]]]

\* set_index('index'): the column 'index' becomes the labels.
set_index(df) ==
    [columns |-> df.columns \ {"index"},
     index |-> Column(df, "index"),
     rows |-> [i \in 1..Len(df.rows) |-> Restrict(df.rows[i], df.columns \ {"index"})]]

\* Series.unique(): the distinct values in the order of their first appearance.
RECURSIVE unique(_)
unique(s) ==
    IF s = <<>> THEN <<>>
    ELSE LET front == unique(SubSeq(s, 1, Len(s) - 1))
             x == s[Len(s)]
         IN  IF x \in Range(front) THEN front ELSE Append(front, x)

WithData(r, cols, d) == [c \in cols \cup {"data"} |-> IF c = "data" THEN d ELSE r[c]]

Strict(right_cycle, left_cycle) == right_cycle < left_cycle

\* direction='backward' with allow_exact_matches at its default, True.
Backward(right_cycle, left_cycle) == right_cycle <= left_cycle

\* The right row merge_asof joins to a left row: the last one that is not after it.
asof_data(l, right) ==
    LET cand == {j \in 1..Len(right.rows) : Backward(right.rows[j]["cycle"], l["cycle"])}
    IN  IF cand = {} THEN NaN ELSE right.rows[Max(cand)]["data"]

merge_asof(left, right) ==
    [columns |-> left.columns \cup {"data"},
     index |-> RangeIndex(Len(left.rows)),
     rows |-> [i \in 1..Len(left.rows) |->
                 WithData(left.rows[i], left.columns, asof_data(left.rows[i], right))]]

\* merged = left_group.copy(); merged['data'] = None
data_none(left) ==
    [columns |-> left.columns \cup {"data"},
     index |-> left.index,
     rows |-> [i \in 1..Len(left.rows) |-> WithData(left.rows[i], left.columns, NaN)]]

SameAddress(df, address) == {i \in 1..Len(df.rows) : df.rows[i]["address"] = address}

left_groups(original_index, address) ==
    sort_values_cycle(Filter(original_index, SameAddress(original_index, address)))

right_groups(indexed, address) ==
    LET g == Filter(indexed, SameAddress(indexed, address))
    IN  sort_values_cycle([columns |-> {"cycle", "data"}, index |-> g.index,
                           rows |-> [i \in 1..Len(g.rows) |->
                                       Restrict(g.rows[i], {"cycle", "data"})]])

merged_groups_skip(original_index, indexed, address) ==
    IF SameAddress(indexed, address) # {}
    THEN {merge_asof(l, r) : l \in left_groups(original_index, address),
                             r \in right_groups(indexed, address)}
    ELSE {NoFrame}

\* The frames one pass of the loop over the addresses can append to results.
merged_groups(original_index, indexed, address) ==
    IF SameAddress(indexed, address) # {}
    THEN {merge_asof(l, r) : l \in left_groups(original_index, address),
                             r \in right_groups(indexed, address)}
    ELSE {data_none(l) : l \in left_groups(original_index, address)}

\* pd.concat(results, ignore_index=True), for every outcome of the loop.
RECURSIVE concat_results(_, _, _, _)
concat_results(original_index, indexed, addresses, k) ==
    IF k > Len(addresses) THEN {<<>>}
    ELSE {m.rows \o rest :
            m \in merged_groups(original_index, indexed, addresses[k]),
            rest \in concat_results(original_index, indexed, addresses, k + 1)}

ConcatFrame(cols, rows) ==
    [columns |-> cols, index |-> RangeIndex(Len(rows)), rows |-> rows]

\* The frames match can return for an index and a stored B that has rows.
match_results(indexed, b) ==
    LET original_index == reset_index(b)
        addresses == unique(Column(b, "address"))
    IN  UNION {sort_index(set_index(ConcatFrame(original_index.columns \cup {"data"}, rows))) :
                 rows \in concat_results(original_index, indexed, addresses, 1)}

\* result_df['data'] = None: the column is written in place.
set_data_none(df) == [df EXCEPT !.columns = @ \cup {"data"}]

NotSet == "set_dataframes not called"

match ==
    /\ UNCHANGED <<df_a, df_b, accepted>>
    /\ UNCHANGED merger_vars
    /\ IF df_a = None \/ df_b = None
       THEN /\ ret' = [NoRet EXCEPT !.op = "match", !.exc = "ValueError", !.msg = NotSet]
            /\ UNCHANGED <<heap, indexed_df_a>>
       ELSE LET indexed == IF indexed_df_a = None THEN build_index(Deref(df_a))
                           ELSE Deref(indexed_df_a)
                built == [heap EXCEPT ![Indexed] = indexed]
            IN  /\ indexed_df_a' = Indexed
                /\ IF unique(Column(Deref(df_b), "address")) # <<>>
                   THEN \E r \in match_results(indexed, Deref(df_b)) :
                          /\ heap' = built
                          /\ ret' = [NoRet EXCEPT !.op = "match", !.frame = r, !.ref = Fresh]
                   ELSE LET result_df == CopyRef(df_b, Fresh)
                            r == set_data_none(Deref(df_b))
                        IN  /\ heap' = IF result_df \in Objects
                                       THEN [built EXCEPT ![result_df] = r] ELSE built
                            /\ ret' = [NoRet EXCEPT !.op = "match", !.frame = r,
                                                    !.ref = result_df]

----------------------------------------------------------------------------
(* get_match_statistics *)

count(df, c) == Len(Column(df, c))

nunique(df, c) == Cardinality(Range(Column(df, c)))

\* (min(), max()) of a column; both are NaN on a frame without rows.
cycle_range(df) ==
    IF df.rows = <<>> THEN <<NaN, NaN>>
    ELSE <<Min(Range(Column(df, "cycle"))), Max(Range(Column(df, "cycle")))>>

statistics(a, b) ==
    [df_a_rows |-> Len(a.rows),
     df_b_rows |-> Len(b.rows),
     unique_addresses_a |-> nunique(a, "address"),
     unique_addresses_b |-> nunique(b, "address"),
     df_a_cycle_range |-> cycle_range(a),
     df_b_cycle_range |-> cycle_range(b)]

get_match_statistics_indexing ==
    /\ ret' = [NoRet EXCEPT !.op = "get_match_statistics",
                 !.stats = IF df_a = None \/ df_b = None THEN <<>>
                           ELSE statistics(Deref(df_a), Deref(df_b))]
    /\ IF df_a = None \/ df_b = None
       THEN UNCHANGED <<heap, indexed_df_a>>
       ELSE /\ heap' = [heap EXCEPT ![Indexed] = build_index(Deref(df_a))]
            /\ indexed_df_a' = Indexed
    /\ UNCHANGED <<df_a, df_b, accepted>>
    /\ UNCHANGED merger_vars

get_match_statistics ==
    /\ ret' = [NoRet EXCEPT !.op = "get_match_statistics",
                 !.stats = IF df_a = None \/ df_b = None THEN <<>>
                           ELSE statistics(Deref(df_a), Deref(df_b))]
    /\ UNCHANGED <<heap, df_a, df_b, indexed_df_a, accepted>>
    /\ UNCHANGED merger_vars

----------------------------------------------------------------------------
(* The caller: it owns the two DataFrames it passes to set_dataframes and  *)
(* the DataFrame match returned, and may change each of them in place.     *)

CallerStep(new_heap) ==
    /\ heap' = new_heap
    /\ ret' = [NoRet EXCEPT !.op = "caller"]
    /\ UNCHANGED <<df_a, df_b, indexed_df_a, accepted>>
    /\ UNCHANGED merger_vars

DropColumn(df, c) ==
    [df EXCEPT !.columns = @ \ {c},
               !.rows = [i \in 1..Len(df.rows) |-> Restrict(df.rows[i], df.columns \ {c})]]

\* df.loc[label] = row, on a frame that has its columns
CallerAppendsA ==
    LET df == heap[CallerA]
    IN  /\ df.columns = required_cols_a
        /\ Len(df.rows) < MaxRowsA
        /\ \E r \in RowsA(Len(df.rows) + 1) :
             CallerStep([heap EXCEPT ![CallerA] =
                           [df EXCEPT !.index = Append(@, Len(df.rows)),
                                      !.rows = Append(@, r)]])

CallerAppendsB ==
    LET df == heap[CallerB]
    IN  /\ df.columns = required_cols_b
        /\ Len(df.rows) < MaxRowsB
        /\ \E r \in RowsB, label \in Labels :
             CallerStep([heap EXCEPT ![CallerB] =
                           [df EXCEPT !.index = Append(@, label),
                                      !.rows = Append(@, r)]])

\* The column a caller deletes from a frame that has rows.
Droppable(obj) == IF obj = CallerA THEN {"data"} ELSE {"address"}

AllColumns(obj) == IF obj = CallerA THEN required_cols_a ELSE required_cols_b

NoRows(obj) == heap[obj].rows = <<>>

\* del df[c]: any column of a frame without rows, one column of a frame with rows
CallerDropsColumn ==
    \E obj \in {CallerA, CallerB} :
      \E c \in heap[obj].columns :
        /\ \/ NoRows(obj)
           \/ c \in Droppable(obj) /\ heap[obj].columns = AllColumns(obj)
        /\ CallerStep([heap EXCEPT ![obj] = DropColumn(@, c)])

\* df[c] = [], on a frame without rows
CallerAddsColumn ==
    \E obj \in {CallerA, CallerB} :
      \E c \in AllColumns(obj) \ heap[obj].columns :
        /\ NoRows(obj)
        /\ CallerStep([heap EXCEPT ![obj].columns = @ \cup {c}])

\* del result['data'], on the frame the call of match before returned.  A
\* fresh object is no part of the heap the matcher or the caller's two
\* DataFrames live in.
CallerEditsResult ==
    /\ ret.op = "match"
    /\ ret.exc = "none"
    /\ CallerStep(IF ret.ref \in Objects
                  THEN [heap EXCEPT ![ret.ref] = DropColumn(@, "data")]
                  ELSE heap)

Next ==
    \/ set_dataframes
    \/ match
    \/ get_match_statistics
    \/ CallerAppendsA
    \/ CallerAppendsB
    \/ CallerDropsColumn
    \/ CallerAddsColumn
    \/ CallerEditsResult

Spec == Init /\ [][Next]_vars

----------------------------------------------------------------------------
(* Merger.merge_csv_files(input_dir, output_file, sort_fields).  The call  *)
(* hands the reads of the files to a pool of max_workers processes and     *)
(* waits: it is two steps, one up to the hand-over and one from the        *)
(* results on, with the steps of the workers between them.                 *)

\* The largest max_workers a Merger is made with.
MaxWorkers == 2

\* The number of calls of merge_csv_files in a behaviour.
MaxCalls == 1

\* The columns of the files, and the sort_fields of a call: <<>> stands for
\* None and for [].
Columns == {"v"}
SortFields == {<<>>, <<"v">>, <<"w">>}

\* An output file left by an earlier run.
StaleRows == <<0>>

StemRank == [x \in {"a", "b", "c", "n"} |->
               CASE x = "a" -> 1 [] x = "b" -> 2 [] x = "c" -> 3 [] OTHER -> 4]

ExtRank == [x \in {".csv", ".csv.gz", ".txt"} |->
              CASE x = ".csv" -> 1 [] x = ".csv.gz" -> 2 [] OTHER -> 3]

\* The order of two paths of one directory: that of their names as strings.
PathLess(p, q) ==
    \/ StemRank[p.stem] < StemRank[q.stem]
    \/ p.stem = q.stem /\ ExtRank[p.ext] < ExtRank[q.ext]

\* input_dir.glob("*" + ext): the files whose name ends in ext, in any of
\* the orders the directory may list them in.
glob(ext) ==
    LET found == {n \in Names : n.ext = ext /\ fs.files[n].state # "absent"}
    IN  {p \in [1..Cardinality(found) -> found] : Range(p) = found}

InsertPath(sorted, x) ==
    LET k == Cardinality({i \in 1..Len(sorted) : ~PathLess(x, sorted[i])})
    IN  SubSeq(sorted, 1, k) \o <<x>> \o SubSeq(sorted, k + 1, Len(sorted))

\* csv_files.sort()
RECURSIVE sort(_, _)
sort(paths, n) == IF n = 0 THEN <<>> ELSE InsertPath(sort(paths, n - 1), paths[n])

\* _find_csv_files, given what the two globs listed.
find_csv_files(csv, gz) == sort(csv \o gz, Len(csv) + Len(gz))

Queued == [state |-> "queued", exc |-> "none", rows |-> <<>>]

\* A _read_csv_file that answers an empty DataFrame for a file it cannot read.
read_csv_file_lenient(path) ==
    [state |-> "done", exc |-> "none", rows |-> fs.files[path].rows]

\* _read_csv_file(path) in a worker: the DataFrame, or the exception raised.
read_csv_file(path) ==
    IF fs.files[path].state = "ok"
    THEN [state |-> "done", exc |-> "none", rows |-> fs.files[path].rows]
    ELSE [state |-> "done", exc |-> "ReadError", rows |-> <<>>]

\* The results in the order the reads ended.
as_completed(results, order) == [i \in 1..Len(order) |-> results[order[i]]]

\* list(executor.map(...)): the results in the order of csv_files.
map_results(results, order) == results

\* pd.concat(dataframes, ignore_index=True)
RECURSIVE concat(_, _)
concat(dataframes, n) ==
    IF n = 0 THEN <<>> ELSE concat(dataframes, n - 1) \o dataframes[n].rows

InsertRow(sorted, x) ==
    LET k == Cardinality({i \in 1..Len(sorted) : sorted[i] <= x})
    IN  SubSeq(sorted, 1, k) \o <<x>> \o SubSeq(sorted, k + 1, Len(sorted))

\* merged_df.sort_values(by=["v"]).reset_index(drop=True)
RECURSIVE sort_values(_, _)
sort_values(rows, n) ==
    IF n = 0 THEN <<>> ELSE InsertRow(sort_values(rows, n - 1), rows[n])

\* _save_dataframe: the output file is written, over what was there.
save_dataframe(rows) == [exists |-> TRUE, rows |-> rows]

Raised(exc) == [op |-> "merge_csv_files", exc |-> exc]

\* merge_csv_files up to the hand-over of the reads to the pool.
merge_csv_files ==
    /\ pc = "idle"
    /\ calls < MaxCalls
    /\ calls' = calls + 1
    /\ UNCHANGED <<max_workers, fs, output, finished>>
    /\ UNCHANGED matcher_vars
    /\ \E sf \in SortFields :
         /\ sort_fields' = sf
         /\ IF fs.kind # "dir"
            THEN /\ mret' = Raised("ValueError")
                 /\ UNCHANGED <<pc, csv_files, tasks>>
            ELSE \E csv \in glob(".csv"), gz \in glob(".csv.gz") :
                   LET found == find_csv_files(csv, gz)
                   IN  IF found = <<>>
                       THEN /\ mret' = Raised("ValueError")
                            /\ UNCHANGED <<pc, csv_files, tasks>>
                       ELSE /\ pc' = "reading"
                            /\ csv_files' = found
                            /\ tasks' = [i \in 1..Len(found) |-> Queued]
                            /\ mret' = Raised("running")

Running == {i \in 1..Len(tasks) : tasks[i].state = "running"}

\* A worker that is free takes the first read that waits.
WorkerStarts ==
    /\ pc = "reading"
    /\ Cardinality(Running) < max_workers
    /\ \E i \in 1..Len(tasks) :
         /\ tasks[i].state = "queued"
         /\ \A j \in 1..(i - 1) : tasks[j].state # "queued"
         /\ tasks' = [tasks EXCEPT ![i].state = "running"]
    /\ UNCHANGED <<max_workers, fs, output, pc, sort_fields, csv_files, finished,
                   calls, mret>>
    /\ UNCHANGED matcher_vars

\* A read ends, whichever of the running ones.
WorkerFinishes ==
    /\ pc = "reading"
    /\ \E i \in Running :
         /\ tasks' = [tasks EXCEPT ![i] = read_csv_file(csv_files[i])]
         /\ finished' = Append(finished, i)
    /\ UNCHANGED <<max_workers, fs, output, pc, sort_fields, csv_files, calls, mret>>
    /\ UNCHANGED matcher_vars

Done(i) == tasks[i].state = "done"

\* The reads list(executor.map(...)) raises of: the first of csv_files that
\* failed, once every read before it has ended well.
FirstError ==
    {k \in 1..Len(tasks) :
       /\ Done(k) /\ tasks[k].exc # "none"
       /\ \A j \in 1..(k - 1) : Done(j) /\ tasks[j].exc = "none"}

\* merge_csv_files from the results on: concat, sort, save; or the
\* exception of a read, after the pool has shut down.
merge_csv_files_returns ==
    /\ pc = "reading"
    /\ pc' = "idle"
    /\ Running = {}
    /\ UNCHANGED <<max_workers, fs, sort_fields, csv_files, tasks, finished, calls>>
    /\ UNCHANGED matcher_vars
    /\ IF FirstError # {}
       THEN /\ mret' = Raised("ReadError")
            /\ UNCHANGED output
       ELSE /\ \A i \in 1..Len(tasks) : Done(i)
            /\ LET dataframes == map_results(tasks, finished)
                   merged_df == concat(dataframes, Len(dataframes))
               IN  IF sort_fields = <<>>
                   THEN /\ output' = save_dataframe(merged_df)
                        /\ mret' = Raised("none")
                   ELSE IF ~(Range(sort_fields) \subseteq Columns)
                   THEN /\ mret' = Raised("KeyError")
                        /\ UNCHANGED output
                   ELSE /\ output' = save_dataframe(sort_values(merged_df, Len(merged_df)))
                        /\ mret' = Raised("none")

\* The environment of the merger: what makes the directory and its files.
EnvStep ==
    /\ pc = "idle"
    /\ calls < MaxCalls
    /\ mret' = [op |-> "env", exc |-> "none"]
    /\ UNCHANGED <<max_workers, pc, sort_fields, csv_files, tasks, finished, calls>>
    /\ UNCHANGED matcher_vars

EnvMakesDirectory ==
    /\ fs.kind = "missing"
    /\ fs' = [fs EXCEPT !.kind = "dir"]
    /\ UNCHANGED output
    /\ EnvStep

\* The path of the input directory is made a regular file.
EnvMakesRegularFile ==
    /\ fs.kind = "missing"
    /\ fs' = [fs EXCEPT !.kind = "file"]
    /\ UNCHANGED output
    /\ EnvStep

EnvWritesFile ==
    /\ fs.kind = "dir"
    /\ \E n \in Names, f \in {Unreadable} \cup [state : {"ok"}, rows : FileRows] :
         /\ fs.files[n].state = "absent"
         /\ fs' = [fs EXCEPT !.files[n] = f]
    /\ UNCHANGED output
    /\ EnvStep

EnvLeavesOutput ==
    /\ ~output.exists
    /\ output' = save_dataframe(StaleRows)
    /\ UNCHANGED fs
    /\ EnvStep

MergeInit == DataFrameMatcher_init /\ \E arg \in 0..MaxWorkers : Merger_init(arg)

MergeNext ==
    \/ merge_csv_files
    \/ WorkerStarts
    \/ WorkerFinishes
    \/ merge_csv_files_returns
    \/ EnvMakesDirectory
    \/ EnvMakesRegularFile
    \/ EnvWritesFile
    \/ EnvLeavesOutput

MergeSpec == MergeInit /\ [][MergeNext]_vars

----------------------------------------------------------------------------
(* Properties.  A and B below are the DataFrames of the latest             *)
(* set_dataframes that returned, as they were when it was called.          *)

MatchReturned == ret.op = "match" /\ ret.exc = "none"

Out == ret.frame.rows

\* The records of A in the partition of row r whose time is not after r's.
Predecessors(r) ==
    {j \in 1..Len(accepted.a.rows) :
       /\ accepted.a.rows[j]["address"] = r["address"]
       /\ accepted.a.rows[j]["cycle"] <= r["cycle"]}

AddressesOf(df) == {df.rows[i]["address"] : i \in 1..Len(df.rows)}

RowsAt(rows, x) == {i \in 1..Len(rows) : rows[i]["address"] = x}

\* C1: match returns as many rows as B has, and the fields of output row i
\* other than the payload are the fields of row i of B, for every i.
OrderPreservation ==
    MatchReturned =>
      /\ Len(Out) = Len(accepted.b.rows)
      /\ \A i \in 1..Len(Out) : Restrict(Out[i], accepted.b.columns) = accepted.b.rows[i]

\* C2: the payload of an output row is present exactly when A has a record
\* of the row's partition whose time is not after the row's, and it is then
\* the payload of such a record of the greatest time.
PredecessorCorrectness ==
    MatchReturned =>
      \A i \in 1..Len(Out) :
        /\ Out[i]["data"] # NaN <=> Predecessors(Out[i]) # {}
        /\ Predecessors(Out[i]) # {} =>
             \E j \in Predecessors(Out[i]) :
               /\ accepted.a.rows[j]["data"] = Out[i]["data"]
               /\ \A k \in Predecessors(Out[i]) :
                    accepted.a.rows[k]["cycle"] <= accepted.a.rows[j]["cycle"]

\* An output row at the very time of its predecessor, which is not the only
\* record of A in the row's partition.
PredecessorWitness ==
    /\ MatchReturned
    /\ \E i \in 1..Len(Out) :
         \E j, k \in Predecessors(Out[i]) :
           /\ accepted.a.rows[j]["data"] = Out[i]["data"]
           /\ accepted.a.rows[j]["cycle"] = Out[i]["cycle"]
           /\ accepted.a.rows[k]["cycle"] < accepted.a.rows[j]["cycle"]

\* C3: among the records of A of one partition that share the predecessor
\* time of an output row, the row has the payload of the one latest in A.
TieBreakLastWins ==
    MatchReturned =>
      \A i \in 1..Len(Out) :
        Predecessors(Out[i]) # {} =>
          LET t == Max({accepted.a.rows[j]["cycle"] : j \in Predecessors(Out[i])})
              last == Max({j \in Predecessors(Out[i]) : accepted.a.rows[j]["cycle"] = t})
          IN  Out[i]["data"] = accepted.a.rows[last]["data"]

\* C4: match raises nothing; the rows of B of a partition that A does not
\* have are all in the output, without a payload; the rows of the other
\* partitions have a payload whenever they have a predecessor.
MissingPartition ==
    (ret.op = "match" /\ accepted.set) =>
      /\ ret.exc = "none"
      /\ \A x \in Addresses \ AddressesOf(accepted.a) :
           /\ Cardinality(RowsAt(Out, x)) = Cardinality(RowsAt(accepted.b.rows, x))
           /\ \A i \in RowsAt(Out, x) : Out[i]["data"] = NaN
      /\ \A x \in AddressesOf(accepted.a) :
           \A i \in RowsAt(Out, x) : Out[i]["data"] = NaN <=> Predecessors(Out[i]) = {}

\* B has a row of a partition missing from A and a matched row of another.
MissingPartitionWitness ==
    /\ MatchReturned
    /\ \E i, k \in 1..Len(Out) :
         /\ Out[i]["address"] \notin AddressesOf(accepted.a)
         /\ Out[i]["data"] = NaN
         /\ Out[k]["data"] # NaN

\* C5, as claimed: set_dataframes fails exactly when A lacks one of address,
\* data, cycle or B lacks one of cycle, address, and the error names the
\* frame and exactly the columns that frame lacks.
SchemaValidationAsClaimed ==
    ret.op = "set_dataframes" =>
      LET lacks_a == {"address", "data", "cycle"} \ heap[CallerA].columns
          lacks_b == {"cycle", "address"} \ heap[CallerB].columns
      IN  /\ ret.exc = "ValueError" <=> (lacks_a # {} \/ lacks_b # {})
          /\ ret.exc = "ValueError" =>
               \/ lacks_a # {} /\ ret.msg = "DataFrame A" /\ ret.missing = lacks_a
               \/ lacks_b # {} /\ ret.msg = "DataFrame B" /\ ret.missing = lacks_b

\* C5, amended: set_dataframes fails exactly when A lacks one of address,
\* data, cycle or B lacks one of cycle, address, way, set.  A is looked at
\* first: when it lacks a column the error names A and exactly the columns A
\* lacks, otherwise it names B and exactly the columns B lacks.
SchemaValidation ==
    ret.op = "set_dataframes" =>
      LET lacks_a == {"address", "data", "cycle"} \ heap[CallerA].columns
          lacks_b == {"cycle", "address", "way", "set"} \ heap[CallerB].columns
      IN  /\ ret.exc = "ValueError" <=> (lacks_a # {} \/ lacks_b # {})
          /\ lacks_a # {} => ret.msg = "DataFrame A" /\ ret.missing = lacks_a
          /\ (lacks_a = {} /\ lacks_b # {}) =>
               ret.msg = "DataFrame B" /\ ret.missing = lacks_b

\* B of the repository's test: cycle and address, neither way nor set.
SchemaValidationWitness ==
    /\ ret.op = "set_dataframes"
    /\ heap[CallerA].columns = {"address", "data", "cycle"}
    /\ heap[CallerB].columns = {"cycle", "address"}
    /\ ret.exc = "ValueError"
    /\ ret.missing = {"way", "set"}

\* C6: while no set_dataframes has returned, match raises ValueError and
\* returns nothing; once one has returned, match returns a frame.
MatchNeedsSources ==
    ret.op = "match" =>
      IF accepted.set
      THEN ret.exc = "none" /\ ret.ref # None
      ELSE /\ ret.exc = "ValueError"
           /\ ret.msg = NotSet
           /\ ret.ref = None
           /\ ret.frame = NoFrame

\* match has raised on a matcher whose caller holds a frame that
\* set_dataframes refuses.
MatchNeedsSourcesWitness ==
    /\ ret.op = "match"
    /\ ret.exc = "ValueError"
    /\ ~(required_cols_b \subseteq heap[CallerB].columns)

\* C7: an index the matcher holds is the index of A, and what match returns
\* is a result for the index of A and for B.
IndexFreshness ==
    /\ indexed_df_a # None => Deref(indexed_df_a) = build_index(accepted.a)
    /\ MatchReturned =>
         IF accepted.b.rows # <<>>
         THEN ret.frame \in match_results(build_index(accepted.a), accepted.b)
         ELSE ret.frame = set_data_none(accepted.b)

\* set_dataframes has just replaced an A for which an index had been built
\* by an A with another index.
IndexFreshnessWitness ==
    /\ ret.op = "set_dataframes"
    /\ ret.exc = "none"
    /\ indexed_df_a = None
    /\ heap[Indexed] # NoFrame
    /\ heap[Indexed] # build_index(accepted.a)

StoredUnchanged ==
    /\ UNCHANGED <<df_a, df_b, indexed_df_a>>
    /\ df_a # None => heap'[df_a] = heap[df_a]
    /\ df_b # None => heap'[df_b] = heap[df_b]
    /\ indexed_df_a # None => heap'[indexed_df_a] = heap[indexed_df_a]

IsRange(rg, df) ==
    /\ \E i \in 1..Len(df.rows) : df.rows[i]["cycle"] = rg[1]
    /\ \E i \in 1..Len(df.rows) : df.rows[i]["cycle"] = rg[2]
    /\ \A i \in 1..Len(df.rows) : rg[1] <= df.rows[i]["cycle"] /\ df.rows[i]["cycle"] <= rg[2]

StatisticsOf(st, a, b) ==
    /\ st.df_a_rows = Len(a.rows)
    /\ st.df_b_rows = Len(b.rows)
    /\ st.unique_addresses_a = Cardinality(AddressesOf(a))
    /\ st.unique_addresses_b = Cardinality(AddressesOf(b))
    /\ a.rows # <<>> => IsRange(st.df_a_cycle_range, a)
    /\ b.rows # <<>> => IsRange(st.df_b_cycle_range, b)

\* C8: a call on the matcher leaves the caller's two frames as they are; a
\* change the caller makes to one of them, or to the frame match returned,
\* leaves what the matcher holds as it is, and a later match or
\* get_match_statistics answers for A and B as they were passed.
NoAliasing ==
    /\ [][/\ ret'.op \in {"set_dataframes", "match", "get_match_statistics"} =>
               heap'[CallerA] = heap[CallerA] /\ heap'[CallerB] = heap[CallerB]
          /\ ret'.op = "caller" => StoredUnchanged]_vars
    /\ [](/\ (ret.op = "match" /\ accepted.set) =>
               /\ Len(Out) = Len(accepted.b.rows)
               /\ \A i \in 1..Len(Out) :
                    Out[i]["data"] = NaN <=> Predecessors(Out[i]) = {}
          /\ (ret.op = "get_match_statistics" /\ accepted.set) =>
               StatisticsOf(ret.stats, accepted.a, accepted.b))

\* match has returned after the caller changed both frames it had passed.
NoAliasingWitness ==
    /\ MatchReturned
    /\ Out # <<>>
    /\ heap[CallerA] # accepted.a
    /\ heap[CallerB] # accepted.b

\* C9: get_match_statistics reports the numbers of rows of A and of B, the
\* numbers of their distinct addresses and the least and greatest cycle of
\* each.
StatisticsValues ==
    (ret.op = "get_match_statistics" /\ accepted.set) =>
      /\ ret.exc = "none"
      /\ DOMAIN ret.stats = {"df_a_rows", "df_b_rows", "unique_addresses_a",
                             "unique_addresses_b", "df_a_cycle_range", "df_b_cycle_range"}
      /\ StatisticsOf(ret.stats, accepted.a, accepted.b)

\* Two records of A in one partition at two times.
StatisticsWitness ==
    /\ ret.op = "get_match_statistics"
    /\ accepted.set
    /\ ret.stats.df_a_rows = 2
    /\ ret.stats.unique_addresses_a = 1
    /\ ret.stats.df_a_cycle_range = <<1, 2>>
    /\ ret.stats.df_b_rows = 2
    /\ ret.stats.unique_addresses_b = 2

\* C10: get_match_statistics never raises, returns the empty dict while no
\* sources are set, and leaves the sources and the index as they are.
StatisticsNoSideEffect ==
    [][ret'.op = "get_match_statistics" =>
         /\ ret'.exc = "none"
         /\ df_a = None => DOMAIN ret'.stats = {}
         /\ UNCHANGED <<heap, df_a, df_b, indexed_df_a>>]_vars

\* get_match_statistics has returned on a matcher without sources.
StatisticsNoSideEffectWitness ==
    /\ ret.op = "get_match_statistics"
    /\ ret.exc = "none"
    /\ df_a = None
    /\ DOMAIN ret.stats = {}

\* The records of a frame in the partition of address x, in the frame's order.
PartitionOf(df, x) == SelectIdx(df.rows, RowsAt(df.rows, x), 1)

\* C12: an index the matcher holds has, for every address, exactly the
\* records of A of that address, each once, at times that do not decrease.
PartitionIndexInvariant ==
    indexed_df_a # None =>
      /\ Len(Deref(indexed_df_a).rows) = Len(accepted.a.rows)
      /\ \A x \in Addresses :
           LET seq == PartitionOf(Deref(indexed_df_a), x)
           IN  /\ Range(seq) = Range(PartitionOf(accepted.a, x))
               /\ Len(seq) = Len(PartitionOf(accepted.a, x))
               /\ \A i, j \in 1..Len(seq) : i < j => seq[i]["cycle"] <= seq[j]["cycle"]

\* An index built of an A that has two records of one address, the later first.
PartitionIndexWitness ==
    /\ indexed_df_a # None
    /\ Len(accepted.a.rows) = 2
    /\ accepted.a.rows[1]["address"] = accepted.a.rows[2]["address"]
    /\ accepted.a.rows[1]["cycle"] > accepted.a.rows[2]["cycle"]

\* C14: a set_dataframes that raises leaves the stored A, the stored B and
\* the index as they were, and match and get_match_statistics go on
\* answering for the sources set before.
FailedSetIsAtomic ==
    /\ [][(ret'.op = "set_dataframes" /\ ret'.exc = "ValueError") =>
            StoredUnchanged /\ UNCHANGED heap]_vars
    /\ [](/\ (df_a # None /\ df_b # None) =>
               (accepted.set /\ Deref(df_a) = accepted.a /\ Deref(df_b) = accepted.b)
          /\ (ret.op = "match" /\ accepted.set) => Len(Out) = Len(accepted.b.rows)
          /\ (ret.op = "get_match_statistics" /\ accepted.set) =>
               /\ ret.stats.df_a_rows = Len(accepted.a.rows)
               /\ ret.stats.df_b_rows = Len(accepted.b.rows))

\* set_dataframes has raised for an A without data and a B without address,
\* on a matcher that holds sources with rows and their index.
FailedSetWitness ==
    /\ ret.op = "set_dataframes"
    /\ ret.exc = "ValueError"
    /\ "data" \notin heap[CallerA].columns
    /\ "address" \notin heap[CallerB].columns
    /\ accepted.set
    /\ accepted.a.rows # <<>>
    /\ accepted.b.rows # <<>>
    /\ indexed_df_a # None

MergeReturned == pc = "idle" /\ mret.op = "merge_csv_files"

\* The files of the directory merge_csv_files is to read.
CsvPresent == {n \in Names : n.ext \in {".csv", ".csv.gz"} /\ fs.files[n].state # "absent"}

\* The inputs the call has to fail on.
InputFails ==
    \/ fs.kind # "dir"
    \/ CsvPresent = {}
    \/ \E n \in CsvPresent : fs.files[n].state = "unreadable"

\* C11: merge_csv_files raises, and leaves the output file as it was, when
\* the input directory is missing or no directory, holds no .csv or .csv.gz
\* file, or holds one that cannot be read; a call writes the output only
\* when every file was read.
IngestionAllOrNothing ==
    /\ [](MergeReturned /\ InputFails => mret.exc \in {"ValueError", "ReadError"})
    /\ [][(mret'.op = "merge_csv_files" /\ mret'.exc # "none") => output' = output]_vars
    /\ [][(mret'.op = "merge_csv_files" /\ output' # output) =>
            /\ ~InputFails
            /\ \A i \in 1..Len(csv_files) : Done(i) /\ tasks[i].exc = "none"
            /\ Range(csv_files) = CsvPresent]_vars

\* A call has raised for the one file of three that cannot be read, after
\* the two others were read, and the output of an earlier run is still there.
IngestionWitness ==
    /\ MergeReturned
    /\ mret.exc = "ReadError"
    /\ Len(tasks) = 3
    /\ Cardinality({i \in 1..3 : Done(i) /\ tasks[i].exc = "none"}) = 2
    /\ output = save_dataframe(StaleRows)

\* The files merged, by ascending name.
InNameOrder == <<Path("a", ".csv.gz"), Path("b", ".csv"), Path("c", ".csv")>>

\* C13: a merge without sort fields writes the rows of the files by
\* ascending file name, the rows of a file in the order they have there,
\* with any number of workers and any order of the reads' ends.
MergeOrder ==
    (MergeReturned /\ mret.exc = "none" /\ sort_fields = <<>>) =>
      /\ output.exists
      /\ output.rows = fs.files[InNameOrder[1]].rows \o fs.files[InNameOrder[2]].rows
                         \o fs.files[InNameOrder[3]].rows

\* Three files merged by two workers or more, the read of the first file
\* ending last, where the rows in the order of the ends would differ.
MergeOrderWitness ==
    /\ MergeReturned
    /\ mret.exc = "none"
    /\ sort_fields = <<>>
    /\ max_workers >= 2
    /\ Len(finished) = 3
    /\ finished[3] = 1
    /\ output.rows # concat(as_completed(tasks, finished), 3)

====
